---- MODULE Spec2Model ----
(***************************************************************************)
(* compact_hash: the SplitMix64 generator (src/SplitMix64.h) and the       *)
(* CompactHash streaming hash with its one-shot and extended-output         *)
(* functions (src/compact_hash.h).                                          *)
(*                                                                         *)
(* A uint64_t is the sequence of its 8 bytes, least significant first      *)
(* (the byte order of the x86-64 and arm64 targets the header names), so   *)
(* that memcpy between a byte buffer and a word copies the bytes as they   *)
(* are.  All word arithmetic is carried out on these bytes, modulo 2^64.   *)
(***************************************************************************)
EXTENDS Integers, Sequences, FiniteSets, TLC

(***************************************************************************)
(* 64-bit unsigned arithmetic of the C++ built-in operators                *)
(***************************************************************************)

\* the bitwise operators on 4-bit halves of a byte, tabulated once
XorNib ==
    [x \in 0..15 |-> [y \in 0..15 |->
        ((x + y) % 2)
        + 2 * (((x \div 2) + (y \div 2)) % 2)
        + 4 * (((x \div 4) + (y \div 4)) % 2)
        + 8 * (((x \div 8) + (y \div 8)) % 2)]]

OrNib ==
    [x \in 0..15 |-> [y \in 0..15 |->
        (IF (x % 2) + (y % 2) > 0 THEN 1 ELSE 0)
        + (IF ((x \div 2) % 2) + ((y \div 2) % 2) > 0 THEN 2 ELSE 0)
        + (IF ((x \div 4) % 2) + ((y \div 4) % 2) > 0 THEN 4 ELSE 0)
        + (IF ((x \div 8) % 2) + ((y \div 8) % 2) > 0 THEN 8 ELSE 0)]]

XorByte(x, y) == 16 * XorNib[x \div 16][y \div 16] + XorNib[x % 16][y % 16]

OrByte(x, y) == 16 * OrNib[x \div 16][y \div 16] + OrNib[x % 16][y % 16]

\* a ^ b
Xor64(a, b) ==
    <<XorByte(a[1], b[1]), XorByte(a[2], b[2]), XorByte(a[3], b[3]),
      XorByte(a[4], b[4]), XorByte(a[5], b[5]), XorByte(a[6], b[6]),
      XorByte(a[7], b[7]), XorByte(a[8], b[8])>>

\* a | b
Or64(a, b) ==
    <<OrByte(a[1], b[1]), OrByte(a[2], b[2]), OrByte(a[3], b[3]),
      OrByte(a[4], b[4]), OrByte(a[5], b[5]), OrByte(a[6], b[6]),
      OrByte(a[7], b[7]), OrByte(a[8], b[8])>>

\* a + b, wrapping at 2^64: byte k of the sum takes the carry out of byte k - 1
Add64(a, b) ==
    LET t1 == a[1] + b[1]
        t2 == a[2] + b[2] + (t1 \div 256)
        t3 == a[3] + b[3] + (t2 \div 256)
        t4 == a[4] + b[4] + (t3 \div 256)
        t5 == a[5] + b[5] + (t4 \div 256)
        t6 == a[6] + b[6] + (t5 \div 256)
        t7 == a[7] + b[7] + (t6 \div 256)
        t8 == a[8] + b[8] + (t7 \div 256)
    IN  <<t1 % 256, t2 % 256, t3 % 256, t4 % 256, t5 % 256, t6 % 256,
          t7 % 256, t8 % 256>>

\* a * b, wrapping at 2^64: byte k of the product is the sum of the byte
\* products a[i] * b[k + 1 - i] and of the carry out of byte k - 1
Mul64(a, b) ==
    LET t1 == a[1] * b[1]
        t2 == a[1] * b[2] + a[2] * b[1] + (t1 \div 256)
        t3 == a[1] * b[3] + a[2] * b[2] + a[3] * b[1] + (t2 \div 256)
        t4 == a[1] * b[4] + a[2] * b[3] + a[3] * b[2] + a[4] * b[1]
            + (t3 \div 256)
        t5 == a[1] * b[5] + a[2] * b[4] + a[3] * b[3] + a[4] * b[2]
            + a[5] * b[1] + (t4 \div 256)
        t6 == a[1] * b[6] + a[2] * b[5] + a[3] * b[4] + a[4] * b[3]
            + a[5] * b[2] + a[6] * b[1] + (t5 \div 256)
        t7 == a[1] * b[7] + a[2] * b[6] + a[3] * b[5] + a[4] * b[4]
            + a[5] * b[3] + a[6] * b[2] + a[7] * b[1] + (t6 \div 256)
        t8 == a[1] * b[8] + a[2] * b[7] + a[3] * b[6] + a[4] * b[5]
            + a[5] * b[4] + a[6] * b[3] + a[7] * b[2] + a[8] * b[1]
            + (t7 \div 256)
    IN  <<t1 % 256, t2 % 256, t3 % 256, t4 % 256, t5 % 256, t6 % 256,
          t7 % 256, t8 % 256>>

\* the 16 bytes of the full 128-bit product a * b
Mul128(a, b) ==
    LET t1 == a[1] * b[1]
        t2 == a[1] * b[2] + a[2] * b[1] + (t1 \div 256)
        t3 == a[1] * b[3] + a[2] * b[2] + a[3] * b[1] + (t2 \div 256)
        t4 == a[1] * b[4] + a[2] * b[3] + a[3] * b[2] + a[4] * b[1]
            + (t3 \div 256)
        t5 == a[1] * b[5] + a[2] * b[4] + a[3] * b[3] + a[4] * b[2]
            + a[5] * b[1] + (t4 \div 256)
        t6 == a[1] * b[6] + a[2] * b[5] + a[3] * b[4] + a[4] * b[3]
            + a[5] * b[2] + a[6] * b[1] + (t5 \div 256)
        t7 == a[1] * b[7] + a[2] * b[6] + a[3] * b[5] + a[4] * b[4]
            + a[5] * b[3] + a[6] * b[2] + a[7] * b[1] + (t6 \div 256)
        t8 == a[1] * b[8] + a[2] * b[7] + a[3] * b[6] + a[4] * b[5]
            + a[5] * b[4] + a[6] * b[3] + a[7] * b[2] + a[8] * b[1]
            + (t7 \div 256)
        t9 == a[2] * b[8] + a[3] * b[7] + a[4] * b[6] + a[5] * b[5]
            + a[6] * b[4] + a[7] * b[3] + a[8] * b[2] + (t8 \div 256)
        t10 == a[3] * b[8] + a[4] * b[7] + a[5] * b[6] + a[6] * b[5]
             + a[7] * b[4] + a[8] * b[3] + (t9 \div 256)
        t11 == a[4] * b[8] + a[5] * b[7] + a[6] * b[6] + a[7] * b[5]
             + a[8] * b[4] + (t10 \div 256)
        t12 == a[5] * b[8] + a[6] * b[7] + a[7] * b[6] + a[8] * b[5]
             + (t11 \div 256)
        t13 == a[6] * b[8] + a[7] * b[7] + a[8] * b[6] + (t12 \div 256)
        t14 == a[7] * b[8] + a[8] * b[7] + (t13 \div 256)
        t15 == a[8] * b[8] + (t14 \div 256)
        t16 == (t15 \div 256)
    IN  <<t1 % 256, t2 % 256, t3 % 256, t4 % 256, t5 % 256, t6 % 256,
          t7 % 256, t8 % 256, t9 % 256, t10 % 256, t11 % 256, t12 % 256,
          t13 % 256, t14 % 256, t15 % 256, t16 % 256>>

Pow2(r) == CASE r = 0 -> 1 [] r = 1 -> 2 [] r = 2 -> 4 [] r = 3 -> 8
             [] r = 4 -> 16 [] r = 5 -> 32 [] r = 6 -> 64 [] r = 7 -> 128
             [] r = 8 -> 256

\* a >> k, for 0 <= k < 64
Shr64(a, k) ==
    LET q == k \div 8
        lo == Pow2(k % 8)
        hi == Pow2(8 - (k % 8))
        at(j) == IF j <= 8 THEN a[j] ELSE 0
        byte(n) == (at(n + q) \div lo) + (at(n + q + 1) % lo) * hi
    IN  <<byte(1), byte(2), byte(3), byte(4), byte(5), byte(6), byte(7), byte(8)>>

\* a << k, for 0 <= k < 64
Shl64(a, k) ==
    LET q == k \div 8
        lo == Pow2(k % 8)
        hi == Pow2(8 - (k % 8))
        at(j) == IF j >= 1 THEN a[j] ELSE 0
        byte(n) == ((at(n - q) * lo) % 256) + (at(n - q - 1) \div hi)
    IN  <<byte(1), byte(2), byte(3), byte(4), byte(5), byte(6), byte(7), byte(8)>>

\* the word whose value is the small natural n (n < 2^31)
WordOf(n) ==
    <<n % 256, (n \div 256) % 256, (n \div 65536) % 256,
      (n \div 16777216) % 256, 0, 0, 0, 0>>

Zero64 == WordOf(0)

(***************************************************************************)
(* SplitMix64 (src/SplitMix64.h)                                           *)
(***************************************************************************)

\* 0x9e3779b97f4a7c15
INCREMENT == <<21, 124, 74, 127, 185, 121, 55, 158>>

\* 0xbf58476d1ce4e5b9
MixMul1 == <<185, 229, 228, 28, 109, 71, 88, 191>>

\* 0x94d049bb133111eb
MixMul2 == <<235, 17, 49, 19, 187, 73, 208, 148>>

\* SplitMix64(u64 seed): state(seed)
SplitMix64(seed) == seed

\* z ^ (z >> k)
XorShr(z, k) == Xor64(z, Shr64(z, k))

\* operator()'s output mix of the advanced state z
MixOf(z) ==
    XorShr(Mul64(XorShr(Mul64(XorShr(z, 30), MixMul1), 27), MixMul2), 31)

\* operator() once "state += INCREMENT" has produced z: the generator after
\* the call and the word it returns
Emit(z) == [state |-> z, out |-> MixOf(z)]

\* operator() with the even increment 0x9e3779b97f4a7c14
SplitMix64_call_even(state) ==
    Emit(Add64(state, <<20, 124, 74, 127, 185, 121, 55, 158>>))

\* operator(): the generator after the call and the word it returns
SplitMix64_call(state) == Emit(Add64(state, INCREMENT))

\* discard with "INCREMENT + n" for "INCREMENT * n"
SplitMix64_discard_plus(state, n) == Add64(state, Add64(INCREMENT, n))

\* discard(n): the generator after the call
SplitMix64_discard(state, n) == Add64(state, Mul64(INCREMENT, n))

\* static_cast<uint64_t>(rd()): a 32-bit draw (4 bytes) widened with zeros
U64OfU32(d) == d \o <<0, 0, 0, 0>>

\* SplitMix64(NonDeterministic): the state built from the two draws of rd, d1
\* the draw of the left operand of | and d2 the draw of the right operand
\* (the order in which the two operands are evaluated is unspecified)
SplitMix64_nondet(d1, d2) == Or64(Shr64(U64OfU32(d1), 32), U64OfU32(d2))

(***************************************************************************)
(* CompactHash (src/compact_hash.h)                                        *)
(***************************************************************************)

\* 0x2d358dccaa6c78a5
CompressMul == <<165, 120, 108, 170, 204, 141, 53, 45>>

\* 0x8bb84b93962eacc9
CompressXor == <<201, 172, 46, 150, 147, 75, 184, 139>>

\* 0x9fb21c651e98df25
PRIME_MX2 == <<37, 223, 152, 30, 101, 28, 178, 159>>

\* rotl(x, r): r &= 63; (x << r) | (x >> (64 - r)), used with r = 49 and r = 24
rotl(x, r) == LET s == r % 64 IN Or64(Shl64(x, s), Shr64(x, 64 - s))

\* _umul128(a, b, &hi): the low and the high word of the 128-bit product
umul128(a, b) ==
    LET product == Mul128(a, b)
    IN  [lo |-> SubSeq(product, 1, 8), hi |-> SubSeq(product, 9, 16)]

\* compress's return statement: x ^ 0x8bb84b93962eacc9 ^ lo ^ hi, with xc the
\* word x ^ 0x8bb84b93962eacc9 and p the product
FoldProduct(xc, p) == Xor64(Xor64(xc, p.lo), p.hi)

\* compress from its second statement on, x being (x + y) * 0x2d358dccaa6c78a5
\* and xc the word x ^ 0x8bb84b93962eacc9
MulFold(x, xc) == FoldProduct(xc, umul128(x, xc))

\* compress after its first statement
CompressScaled(x) == MulFold(x, Xor64(x, CompressXor))

compress(x, y) == CompressScaled(Mul64(Add64(x, y), CompressMul))

\* CompactHash(seed): the object after construction; ncompress counts the
\* compress calls insert has made on each lane (instrumentation)
CompactHash(seed) ==
    LET g1 == SplitMix64_call(SplitMix64(seed))
    IN  [state |-> <<g1.out, SplitMix64_call(g1.state).out>>,
         total_len |-> Zero64, ncompress |-> 0]

\* insert's main loop.  l is the loop's state: the object l.h and the count
\* l.size of bytes left, the last l.size bytes of the buffer p
RECURSIVE InsertLoop(_, _)
InsertLoop(l, p) ==
    IF l.size >= 16
    THEN LET off == Len(p) - l.size
             m0 == SubSeq(p, off + 1, off + 8)
             m1 == SubSeq(p, off + 9, off + 16)
         IN  InsertLoop([h |-> [l.h EXCEPT
                                  !.state = <<compress(l.h.state[1], m0),
                                              compress(l.h.state[2], m1)>>,
                                  !.ncompress = @ + 1],
                         size |-> l.size - 16],
                        p)
    ELSE l

\* InsertTail with line 116 missing: the tail is combined into lane 0 only
InsertTail_lane0(l, p) ==
    LET off == Len(p) - l.size
        byte(k) == IF k <= l.size THEN p[off + k] ELSE 0
        m0 == <<byte(1), byte(2), byte(3), byte(4),
                byte(5), byte(6), byte(7), byte(8)>>
    IN  IF l.size > 0
        THEN [l.h EXCEPT !.state = <<compress(l.h.state[1], m0), l.h.state[2]>>,
                         !.ncompress = @ + 1]
        ELSE l.h

\* InsertTail with "size >= 0" for "size > 0": an empty tail is combined too
InsertTail_always(l, p) ==
    LET off == Len(p) - l.size
        byte(k) == IF k <= l.size THEN p[off + k] ELSE 0
        m0 == <<byte(1), byte(2), byte(3), byte(4),
                byte(5), byte(6), byte(7), byte(8)>>
        m1 == <<byte(9), byte(10), byte(11), byte(12),
                byte(13), byte(14), byte(15), byte(16)>>
    IN  [l.h EXCEPT !.state = <<compress(l.h.state[1], m0),
                                compress(l.h.state[2], m1)>>,
                    !.ncompress = @ + 1]

\* insert's tail, after the loop: the remaining 1 to 15 bytes copied over
\* m = {0, 0}; the object after the call
InsertTail(l, p) ==
    LET off == Len(p) - l.size
        byte(k) == IF k <= l.size THEN p[off + k] ELSE 0
        m0 == <<byte(1), byte(2), byte(3), byte(4),
                byte(5), byte(6), byte(7), byte(8)>>
        m1 == <<byte(9), byte(10), byte(11), byte(12),
                byte(13), byte(14), byte(15), byte(16)>>
    IN  IF l.size > 0
        THEN [l.h EXCEPT !.state = <<compress(l.h.state[1], m0),
                                     compress(l.h.state[2], m1)>>,
                         !.ncompress = @ + 1]
        ELSE l.h

\* insert counting only the bytes of the full blocks in total_len
insert_blocklen(h, p) ==
    LET h1 == [h EXCEPT !.total_len = Add64(@, WordOf(16 * (Len(p) \div 16)))]
    IN  InsertTail(InsertLoop([h |-> h1, size |-> Len(p)], p), p)

\* insert(p, size) with size = Len(p): the object after the call
insert(h, p) ==
    LET h1 == [h EXCEPT !.total_len = Add64(@, WordOf(Len(p)))]
    IN  InsertTail(InsertLoop([h |-> h1, size |-> Len(p)], p), p)

\* h ^= rotl(h, 49) ^ rotl(h, 24)
RotMix(h) == Xor64(h, Xor64(rotl(h, 49), rotl(h, 24)))

\* h ^= (h >> 35) ^ len
LenMix(h, len) == Xor64(h, Xor64(Shr64(h, 35), len))

\* the Avalanche / Finalizer of finalize on the merged word h, with len the
\* word XORed in between the two multiplications
Avalanche(h, len) ==
    XorShr(Mul64(LenMix(Mul64(RotMix(h), PRIME_MX2), len), PRIME_MX2), 28)

\* finalize without total_len in the avalanche
finalize_nolen(h) == Avalanche(compress(h.state[1], h.state[2]), Zero64)

\* finalize with total_len * INCREMENT in the place of total_len
finalize_scaled(h) ==
    Avalanche(compress(h.state[1], h.state[2]), Mul64(h.total_len, INCREMENT))

\* finalize(): the value returned
finalize(h) == Avalanche(compress(h.state[1], h.state[2]), h.total_len)

\* compact_hash(data, size, seed), the one-shot function
compact_hash(data, seed) == finalize(insert(CompactHash(seed), data))

(***************************************************************************)
(* Bounds and inputs                                                       *)
(***************************************************************************)

\* insert calls on one CompactHash object
MaxInserts == 2

\* finalize calls in a row on one CompactHash object
MaxFinalize == 2

\* full 16-byte blocks in the longest block-aligned buffer
MaxBlocks == 2

\* operator() calls (or their discard equivalent) on one generator
MaxPos == 257

\* largest small count given to discard
MaxDiscard == 2

\* largest nWords given to compact_hash_extended
MaxWords == 3

\* no value: the last call returned nothing
NoValue == <<>>

\* 12345, the seed of the header's usage examples
Seeds == {Zero64, WordOf(12345)}

\* the first n bytes of "ABC...XYZabc...xyz"
Pattern(n) == SubSeq(<<65, 66, 67, 68, 69, 70, 71, 72, 73, 74, 75, 76, 77,
                        78, 79, 80, 81, 82, 83, 84, 85, 86, 87, 88, 89, 90,
                        97, 98, 99, 100, 101, 102, 103, 104, 105, 106, 107,
                        108, 109, 110, 111, 112, 113, 114, 115, 116, 117,
                        118, 119, 120, 121, 122>>, 1, n)

\* buffer lengths: empty, one byte, a tail reaching into the second word, the
\* longest tail, whole blocks, and a block followed by a one-byte tail
Lens == {0, 1, 9, 15, 17} \cup {16 * k : k \in 1..MaxBlocks}

\* the buffers given to insert; <<65, 0>> is "A" followed by a zero byte
Buffers == {Pattern(n) : n \in Lens} \cup {<<65, 0>>}

(***************************************************************************)
(* State                                                                   *)
(***************************************************************************)

VARIABLES
    \* one CompactHash object and its caller
    seed,           \* the seed it was constructed with
    state,          \* state[2], the two lanes
    total_len,      \* total_len
    ncompress,      \* compress calls made on each lane by insert so far
    hist,           \* the buffers inserted so far, in order
    ret,            \* the value the last call returned (NoValue after insert)
    since,          \* finalize calls since the last insert
    resumed,        \* an insert was made after a finalize call
    \* one SplitMix64 generator and its caller
    sm_mode,        \* "none" before construction, "ok", or "failed"
    sm_seed,        \* the state right after construction
    sm_state,       \* state
    sm_pos,         \* operator() calls the object is ahead of sm_seed
    sm_out,         \* the word the last call returned (NoValue after discard)
    sm_last,        \* the last call: <<"construct">>, <<"call">>, <<"discard", n>>
    sm_twin,        \* a generator constructed alike that only takes operator()
                    \* calls, n of them where this one takes discard(n)
    draws,          \* the values rd() returned to SplitMix64(NonDeterministic)
    \* one call of compact_hash_extended
    x_data, x_seed, nWords,   \* its arguments
    i,              \* the loop index
    result,         \* the vector under construction
    seed_generator, \* seed_generator's state
    x_h,            \* h, the CompactHash of the current iteration
    pc              \* where the call is: "start", "loop" (at the loop test),
                    \* "constructed", "data", "index" (after that statement
                    \* of the loop body), "done" (returned)

hashVars == <<seed, state, total_len, ncompress, hist, ret, since, resumed>>
genVars == <<sm_mode, sm_seed, sm_state, sm_pos, sm_out, sm_last, sm_twin, draws>>
extVars == <<x_data, x_seed, nWords, i, result, seed_generator, x_h, pc>>
vars == <<hashVars, genVars, extVars>>

\* the parts of the state a specification does not use
HashIdle ==
    /\ seed = Zero64 /\ state = <<Zero64, Zero64>> /\ total_len = Zero64
    /\ ncompress = 0 /\ hist = <<>> /\ ret = NoValue /\ since = 0
    /\ resumed = FALSE

GenIdle ==
    /\ sm_mode = "none" /\ sm_seed = Zero64 /\ sm_state = Zero64
    /\ sm_pos = 0 /\ sm_out = NoValue /\ sm_last = <<>>
    /\ sm_twin = [state |-> Zero64, out |-> NoValue, n |-> 0]
    /\ draws = <<>>

ExtIdle ==
    /\ x_data = <<>> /\ x_seed = Zero64 /\ nWords = 0 /\ i = 0
    /\ result = <<>> /\ seed_generator = Zero64 /\ pc = "idle"
    /\ x_h = [state |-> <<Zero64, Zero64>>, total_len |-> Zero64,
              ncompress |-> 0]

(***************************************************************************)
(* Spec: a CompactHash object under insert and finalize calls              *)
(***************************************************************************)

\* the object as the operators above take it
Obj == [state |-> state, total_len |-> total_len, ncompress |-> ncompress]

Init ==
    /\ seed \in Seeds
    /\ LET h == CompactHash(seed)
       IN  /\ state = h.state
           /\ total_len = h.total_len
           /\ ncompress = h.ncompress
    /\ hist = <<>> /\ ret = NoValue /\ since = 0 /\ resumed = FALSE
    /\ GenIdle /\ ExtIdle

\* h.insert(p, size)
Insert(p) ==
    /\ Len(hist) < MaxInserts
    /\ LET h == insert(Obj, p)
       IN  /\ state' = h.state
           /\ total_len' = h.total_len
           /\ ncompress' = h.ncompress
    /\ hist' = Append(hist, p)
    /\ ret' = NoValue
    /\ since' = 0
    /\ resumed' = (resumed \/ since > 0)
    /\ UNCHANGED <<seed, genVars, extVars>>

\* Finalize consuming the object: total_len is reset by the call
Finalize_reset ==
    /\ since < MaxFinalize
    /\ ret' = finalize(Obj)
    /\ total_len' = Zero64
    /\ since' = since + 1
    /\ UNCHANGED <<seed, state, ncompress, hist, resumed, genVars, extVars>>

\* h.finalize()
Finalize ==
    /\ since < MaxFinalize
    /\ ret' = finalize(Obj)
    /\ since' = since + 1
    /\ UNCHANGED <<seed, state, total_len, ncompress, hist, resumed,
                   genVars, extVars>>

Next ==
    \/ \E p \in Buffers : Insert(p)
    \/ Finalize

Spec == Init /\ [][Next]_vars

(***************************************************************************)
(* Properties of the CompactHash object (checked under Spec)               *)
(***************************************************************************)

\* the object after construction with sd and the inserts of bufs, in order,
\* with no finalize call in between
RECURSIVE ReplayFrom(_, _)
ReplayFrom(acc, bufs) ==
    IF acc.n = Len(bufs) THEN acc
    ELSE ReplayFrom([h |-> insert(acc.h, bufs[acc.n + 1]), n |-> acc.n + 1],
                    bufs)

Replay(sd, bufs) == ReplayFrom([h |-> CompactHash(sd), n |-> 0], bufs).h

\* C1: finalize is a read-only projection.  Whatever finalize calls were made
\* and wherever they fell among the inserts, the lanes and total_len are those
\* of the inserts alone, and a finalize call returns the value determined by
\* the inserts alone: so a call changes no field, a repeated call returns the
\* same value, and a finalize between two inserts leaves later results as they
\* would be without it.
C1_FinalizeReadOnly ==
    LET r == Replay(seed, hist)
    IN  /\ state = r.state
        /\ total_len = r.total_len
        /\ ret # NoValue => ret = finalize(r)

\* a finalize, later a nonempty insert, then two finalize calls in a row
C1_Witness ==
    /\ resumed /\ hist[Len(hist)] # <<>>
    /\ since = 2 /\ ret # NoValue

RECURSIVE SumLen(_)
SumLen(bufs) ==
    IF bufs = <<>> THEN 0
    ELSE Len(bufs[1]) + SumLen(SubSeq(bufs, 2, Len(bufs)))

\* C2: total_len is the sum of the sizes of all inserts so far (0 right after
\* construction), whatever the sizes and whatever finalize calls were made.
C2_TotalLenIsSum == total_len = WordOf(SumLen(hist))

\* a 17-byte insert, a finalize, then an insert of size 0
C2_Witness ==
    /\ Len(hist) = 2 /\ Len(hist[1]) = 17 /\ Len(hist[2]) = 0 /\ resumed

\* C3 as stated: finalize returns the avalanche of compress(state[0], state[1])
\* XORed with total_len * 0x9e3779b97f4a7c15.
C3_LengthScaledConstant ==
    ret # NoValue =>
        ret = Avalanche(Xor64(compress(state[1], state[2]),
                              Mul64(total_len, INCREMENT)),
                        total_len)

\* 0x02ab9c720d1024ad, the inverse of PRIME_MX2 modulo 2^64
PrimeInverse == <<173, 36, 16, 13, 114, 156, 171, 2>>

\* the value XORed in between the two multiplications of the avalanche, taken
\* back out of a returned value r: the last shift-xor and the last
\* multiplication are undone, and the first half of the avalanche of the
\* merged lanes is removed
MixedIn(r, lanes) ==
    LET h4 == Xor64(r, Xor64(Shr64(r, 28), Shr64(r, 56)))
        h3 == Mul64(h4, PrimeInverse)
        h0 == compress(lanes[1], lanes[2])
        h2 == Mul64(Xor64(Xor64(h0, rotl(h0, 49)), rotl(h0, 24)), PRIME_MX2)
    IN  Xor64(h3, Xor64(h2, Shr64(h2, 35)))

\* C3 as amended: finalize merges the lanes with compress and applies the
\* avalanche, and the length enters once, inside the avalanche, as total_len
\* itself: what is XORed in between the two multiplications is exactly
\* total_len, not total_len times a constant.
C3_RawLengthInAvalanche ==
    /\ Mul64(PRIME_MX2, PrimeInverse) = WordOf(1)
    /\ ret # NoValue =>
        /\ MixedIn(ret, state) = total_len
        /\ ret = Avalanche(compress(state[1], state[2]), total_len)

\* a finalize of an object that holds a nonzero length
C3_Witness == ret # NoValue /\ total_len # Zero64 /\ Len(hist) = 2

\* C4: length sensitivity.  After the one-shot sequence (construct, one insert
\* of b, finalize) with Len(b) % 16 in 1..14, the value returned is
\* compact_hash(b, seed) and differs from compact_hash of b followed by a zero
\* byte under the same seed, although both leave the same lanes: only
\* total_len differs.
C4_LengthSensitive ==
    (Len(hist) = 1 /\ Len(hist[1]) % 16 \in 1..14 /\ ret # NoValue) =>
        LET b0 == Append(hist[1], 0)
            h0 == insert(CompactHash(seed), b0)
        IN  /\ ret = compact_hash(hist[1], seed)
            /\ ret # compact_hash(b0, seed)
            /\ h0.state = state
            /\ h0.total_len # total_len

\* the one-shot hash of "A"
C4_Witness == hist = << <<65>> >> /\ ret # NoValue /\ since = 1

\* b with zero bytes appended up to the next multiple of 16
Pad16(b) ==
    b \o SubSeq(<<0, 0, 0, 0, 0, 0, 0, 0, 0, 0, 0, 0, 0, 0, 0>>,
                1, (16 - (Len(b) % 16)) % 16)

\* acc.lanes after combining the 16-byte blocks of padded that are still to
\* come, in order: the first 8 bytes of a block into lane 0, its last 8 bytes
\* into lane 1.  acc.steps counts the blocks combined; it was base before the
\* first block of padded
RECURSIVE AbsorbBlocks(_, _, _)
AbsorbBlocks(acc, padded, base) ==
    LET at == 16 * (acc.steps - base)
    IN  IF at >= Len(padded) THEN acc
        ELSE AbsorbBlocks(
                 [lanes |-> <<compress(acc.lanes[1],
                                       SubSeq(padded, at + 1, at + 8)),
                              compress(acc.lanes[2],
                                       SubSeq(padded, at + 9, at + 16))>>,
                  steps |-> acc.steps + 1],
                 padded, base)

\* the lanes and the number of blocks combined after construction with sd and
\* the inserts of bufs, each buffer taken as its padded blocks
RECURSIVE PaddedBlocksFrom(_, _)
PaddedBlocksFrom(acc, bufs) ==
    IF acc.n = Len(bufs) THEN acc
    ELSE LET a == AbsorbBlocks([lanes |-> acc.lanes, steps |-> acc.steps],
                               Pad16(bufs[acc.n + 1]), acc.steps)
         IN  PaddedBlocksFrom([lanes |-> a.lanes, steps |-> a.steps,
                               n |-> acc.n + 1],
                              bufs)

PaddedBlocks(sd, bufs) ==
    PaddedBlocksFrom([lanes |-> CompactHash(sd).state, steps |-> 0, n |-> 0],
                     bufs)

RECURSIVE CeilBlocks(_)
CeilBlocks(bufs) ==
    IF bufs = <<>> THEN 0
    ELSE ((Len(bufs[1]) + 15) \div 16) + CeilBlocks(SubSeq(bufs, 2, Len(bufs)))

\* C8: each insert applies ceil(size/16) compression steps to each lane, those
\* of the blocks of the buffer zero-padded to a multiple of 16 (none for size
\* 0), and a buffer with one more zero byte inside the padded final block
\* leaves the same lanes.
C8_PaddedBlockSteps ==
    /\ LET ref == PaddedBlocks(seed, hist)
       IN  state = ref.lanes /\ ref.steps = CeilBlocks(hist)
    /\ ncompress = CeilBlocks(hist)
    /\ (hist # <<>> /\ Len(hist[Len(hist)]) % 16 # 0) =>
          LET before == Replay(seed, SubSeq(hist, 1, Len(hist) - 1))
          IN  insert(before, Append(hist[Len(hist)], 0)).state = state

\* a block with a one-byte tail, then a two-byte buffer ending in a zero byte
C8_Witness ==
    /\ Len(hist) = 2 /\ Len(hist[1]) = 17 /\ hist[2] = <<65, 0>>
    /\ ncompress = 3

RECURSIVE Concat(_)
Concat(bufs) ==
    IF bufs = <<>> THEN <<>>
    ELSE bufs[1] \o Concat(SubSeq(bufs, 2, Len(bufs)))

\* every insert but the last ended on a block boundary
AlignedSplit == \A k \in 1..(Len(hist) - 1) : Len(hist[k]) % 16 = 0

\* C10: the inserts made so far leave the same total_len as one insert of
\* their concatenation, and when every insert but the last had a size that is
\* a multiple of 16 they leave the same lanes and the same finalize value too.
\* A split inside a block carries no such guarantee: "A" inserted twice
\* leaves other lanes than one insert of "AA".
C10_SplitAtBlockBoundary ==
    LET one == insert(CompactHash(seed), Concat(hist))
    IN  /\ total_len = one.total_len
        /\ AlignedSplit =>
              /\ state = one.state
              /\ ret # NoValue => ret = finalize(one)
        /\ hist = <<Pattern(1), Pattern(1)>> => state # one.state

\* a 16-byte insert, a 17-byte insert, a finalize
C10_Witness ==
    /\ Len(hist) = 2 /\ Len(hist[1]) = 16 /\ Len(hist[2]) = 17
    /\ ret # NoValue

(***************************************************************************)
(* SpecGen: a SplitMix64 generator under construction, operator() and      *)
(* discard calls                                                           *)
(***************************************************************************)

\* the values rd() returns: 1 and 0xffffffff
Draws == {<<1, 0, 0, 0>>, <<255, 255, 255, 255>>}

\* n successive operator() calls on the generator g.state; g.n counts the
\* calls made and g.out is the word the last of them returned
RECURSIVE Calls(_, _)
Calls(g, n) ==
    IF g.n = n THEN g
    ELSE LET c == SplitMix64_call(g.state)
         IN  Calls([state |-> c.state, out |-> c.out, n |-> g.n + 1], n)

InitGen ==
    /\ GenIdle /\ HashIdle /\ ExtIdle

\* SplitMix64 g(seed)
GenConstruct(sd) ==
    /\ sm_mode = "none"
    /\ sm_mode' = "ok"
    /\ sm_state' = SplitMix64(sd)
    /\ sm_seed' = SplitMix64(sd)
    /\ sm_twin' = [state |-> SplitMix64(sd), out |-> NoValue, n |-> 0]
    /\ sm_pos' = 0 /\ sm_out' = NoValue /\ sm_last' = <<"construct">>
    /\ draws' = <<>>
    /\ UNCHANGED <<hashVars, extVars>>

\* SplitMix64 g(NonDeterministic()), rd() returning d1 and then d2
GenConstructNonDet(d1, d2) ==
    /\ sm_mode = "none"
    /\ sm_mode' = "ok"
    /\ sm_state' = SplitMix64_nondet(d1, d2)
    /\ sm_seed' = SplitMix64_nondet(d1, d2)
    /\ sm_twin' = [state |-> SplitMix64_nondet(d1, d2), out |-> NoValue, n |-> 0]
    /\ sm_pos' = 0 /\ sm_out' = NoValue /\ sm_last' = <<"construct">>
    /\ draws' = <<d1, d2>>
    /\ UNCHANGED <<hashVars, extVars>>

\* SplitMix64 g(NonDeterministic()), std::random_device throwing when it is
\* constructed or in one of the two rd() calls, after the draws ds: the
\* constructor is noexcept(false) and catches nothing, so no object exists
GenConstructFails(ds) ==
    /\ sm_mode = "none"
    /\ sm_mode' = "failed"
    /\ draws' = ds
    /\ UNCHANGED <<sm_seed, sm_state, sm_pos, sm_out, sm_last, sm_twin,
                   hashVars, extVars>>

\* g()
GenCall ==
    /\ sm_mode = "ok"
    /\ sm_pos < MaxPos
    /\ LET c == SplitMix64_call(sm_state)
       IN  sm_state' = c.state /\ sm_out' = c.out
    /\ sm_twin' = Calls([sm_twin EXCEPT !.n = 0], 1)
    /\ sm_pos' = sm_pos + 1
    /\ sm_last' = <<"call">>
    /\ UNCHANGED <<sm_mode, sm_seed, draws, hashVars, extVars>>

\* g.discard(n)
GenDiscard(n) ==
    /\ sm_mode = "ok"
    /\ sm_pos + n <= MaxPos
    /\ sm_state' = SplitMix64_discard(sm_state, WordOf(n))
    /\ sm_out' = NoValue
    /\ sm_twin' = Calls([sm_twin EXCEPT !.n = 0], n)
    /\ sm_pos' = sm_pos + n
    /\ sm_last' = <<"discard", n>>
    /\ UNCHANGED <<sm_mode, sm_seed, draws, hashVars, extVars>>

NextGen ==
    \/ \E sd \in Seeds : GenConstruct(sd)
    \/ \E d1 \in Draws, d2 \in Draws : GenConstructNonDet(d1, d2)
    \/ \E ds \in {<<>>} \cup {<<d>> : d \in Draws} : GenConstructFails(ds)
    \/ GenCall
    \/ \E n \in 0..MaxDiscard : GenDiscard(n)

SpecGen == InitGen /\ [][NextGen]_vars

\* C5: discard(n) leaves the generator in the state n successive operator()
\* calls leave it in: after any calls and discards the state is that of the
\* twin, which took n operator() calls for every discard(n), a word returned
\* is the word the twin returned, and discard itself returns no word.
C5_DiscardIsNCalls ==
    sm_mode = "ok" =>
        /\ sm_state = sm_twin.state
        /\ sm_last = <<"call">> => (sm_out # NoValue /\ sm_out = sm_twin.out)
        /\ sm_last[1] = "discard" => sm_out = NoValue

\* a discard(2) after at least one operator() call: 2 * INCREMENT wraps
C5_Witness ==
    /\ sm_mode = "ok" /\ sm_last = <<"discard", 2>> /\ sm_pos > 2

\* C7 as stated: a failed entropy draw leaves no generator, and a successful
\* non-deterministic construction leaves as state the value drawn, one draw
\* in the high half and the other in the low half (in either order), no part
\* of it replaced by zero.
C7_EntropyDrawIsState ==
    /\ sm_mode = "failed" => (sm_last = <<>> /\ sm_state = Zero64)
    /\ (sm_mode = "ok" /\ Len(draws) = 2 /\ sm_last = <<"construct">>) =>
          \/ sm_state = Or64(Shl64(U64OfU32(draws[1]), 32), U64OfU32(draws[2]))
          \/ sm_state = Or64(Shl64(U64OfU32(draws[2]), 32), U64OfU32(draws[1]))

\* C9: each operator() call adds the odd INCREMENT to the state modulo 2^64,
\* so after the equivalent of sm_pos calls the state is seed + sm_pos *
\* INCREMENT, it has not come back to the seed, and its low byte (the 8-bit
\* generator) is back at the seed's low byte exactly when sm_pos is a
\* multiple of 2^8; the word returned is the mix of the advanced state.
C9_OddIncrementFullPeriod ==
    sm_mode = "ok" =>
        /\ INCREMENT[1] % 2 = 1
        /\ sm_state = Add64(sm_seed, Mul64(INCREMENT, WordOf(sm_pos)))
        /\ sm_pos > 0 => sm_state # sm_seed
        /\ (sm_state[1] = sm_seed[1]) <=> (sm_pos % 256 = 0)
        /\ sm_last = <<"call">> => sm_out = MixOf(sm_state)

\* the call that brings the low byte back to the seed's after 2^8 steps
C9_Witness ==
    /\ sm_mode = "ok" /\ sm_pos = 256 /\ sm_last = <<"call">>
    /\ sm_state[1] = sm_seed[1] /\ sm_state # sm_seed

(***************************************************************************)
(* SpecExt: one call of compact_hash_extended(data, size, nWords, seed)    *)
(***************************************************************************)

\* the buffers given as data
ExtData == {<<>>, <<65>>, Pattern(16), Pattern(17)}

\* the index inserted as a 4-byte integer
IndexBytes_4(k) == SubSeq(WordOf(k), 1, 4)

\* reinterpret_cast<const uint8_t*>(&i), sizeof(i): the 8 bytes of the index
IndexBytes(k) == WordOf(k)

InitExt ==
    /\ x_data \in ExtData
    /\ x_seed \in Seeds
    /\ nWords \in 0..MaxWords
    /\ i = 0 /\ result = <<>> /\ seed_generator = Zero64
    /\ x_h = [state |-> <<Zero64, Zero64>>, total_len |-> Zero64,
              ncompress |-> 0]
    /\ pc = "start"
    /\ HashIdle /\ GenIdle

\* if (nWords == 0) return {};
ExtTrivialExit ==
    /\ pc = "start" /\ nWords = 0
    /\ result' = <<>>
    /\ pc' = "done"
    /\ UNCHANGED <<x_data, x_seed, nWords, i, seed_generator, x_h,
                   hashVars, genVars>>

\* the vector, the seed generator and the loop index are set up
ExtBegin ==
    /\ pc = "start" /\ nWords # 0
    /\ result' = <<>>
    /\ seed_generator' = SplitMix64(x_seed)
    /\ i' = 0
    /\ pc' = "loop"
    /\ UNCHANGED <<x_data, x_seed, nWords, x_h, hashVars, genVars>>

\* CompactHash h(seed_generator());
ExtConstruct ==
    /\ pc = "loop" /\ i < nWords
    /\ LET g == SplitMix64_call(seed_generator)
       IN  /\ seed_generator' = g.state
           /\ x_h' = CompactHash(g.out)
    /\ pc' = "constructed"
    /\ UNCHANGED <<x_data, x_seed, nWords, i, result, hashVars, genVars>>

\* h.insert(data, size);
ExtInsertData ==
    /\ pc = "constructed"
    /\ x_h' = insert(x_h, x_data)
    /\ pc' = "data"
    /\ UNCHANGED <<x_data, x_seed, nWords, i, result, seed_generator,
                   hashVars, genVars>>

\* h.insert(reinterpret_cast<const uint8_t*>(&i), sizeof(i));
ExtInsertIndex ==
    /\ pc = "data"
    /\ x_h' = insert(x_h, IndexBytes(i))
    /\ pc' = "index"
    /\ UNCHANGED <<x_data, x_seed, nWords, i, result, seed_generator,
                   hashVars, genVars>>

\* result.push_back(h.finalize()); ++i
ExtPush ==
    /\ pc = "index"
    /\ result' = Append(result, finalize(x_h))
    /\ i' = i + 1
    /\ pc' = "loop"
    /\ UNCHANGED <<x_data, x_seed, nWords, seed_generator, x_h,
                   hashVars, genVars>>

\* the loop ends: return result;
ExtReturn ==
    /\ pc = "loop" /\ i >= nWords
    /\ pc' = "done"
    /\ UNCHANGED <<x_data, x_seed, nWords, i, result, seed_generator, x_h,
                   hashVars, genVars>>

NextExt ==
    \/ ExtTrivialExit
    \/ ExtBegin
    \/ ExtConstruct
    \/ ExtInsertData
    \/ ExtInsertIndex
    \/ ExtPush
    \/ ExtReturn

SpecExt == InitExt /\ [][NextExt]_vars

\* the n-th word (n >= 1) a SplitMix64 generator constructed with sd returns
NthOutput(sd, n) ==
    Calls([state |-> SplitMix64(sd), out |-> NoValue, n |-> 0], n).out

\* C6: the call returns exactly nWords words (none iff nWords = 0), and word
\* k, whenever it was pushed and whatever nWords is, is the finalize value of
\* a CompactHash constructed with the (k+1)-th output of SplitMix64(seed),
\* after an insert of data and a second insert of the 8 bytes of k.
C6_ExtendedWords ==
    /\ \A k \in 0..(Len(result) - 1) :
          result[k + 1] =
              finalize(insert(insert(CompactHash(NthOutput(x_seed, k + 1)),
                                     x_data),
                              WordOf(k)))
    /\ pc \in {"loop", "constructed", "data", "index"} =>
          (Len(result) = i /\ i <= nWords)
    /\ pc = "done" => (Len(result) = nWords /\ (result = <<>> <=> nWords = 0))

\* three words returned for a nonempty buffer
C6_Witness ==
    /\ pc = "done" /\ nWords = 3 /\ Len(result) = 3 /\ Len(x_data) = 17

====
